---- MODULE Spec2Model ----
(***************************************************************************)
(* Model of google_forms_auto_fill: the answer strategies of mind.py, the  *)
(* entry map, the payload builder and submit_form of app.py, and the two   *)
(* command line programs read_form.py and submit_form.py.                  *)
(*                                                                         *)
(* Strings are sequences of one-character strings, so that strip, lower,   *)
(* split, the "Section N:" pattern, str() and quote_plus are computed.     *)
(* Sentiment scores are integers in hundredths (0.33 is 33).               *)
(* A random draw is a nondeterministic choice: an operator that draws      *)
(* returns the set of everything it can return.                            *)
(***************************************************************************)
EXTENDS Integers, Sequences, FiniteSets, TLC

VARIABLES
    question,          \* harness: the question handed to generate_answer
    sentiment_score,   \* the score of the current call / attempt, in hundredths
    answer,            \* harness: what generate_answer returned or raised
    form,              \* the form as the Forms service holds it
    entry_file,        \* data/entry_data_<form_id>.json
    sentiment_level,   \* --sentiment
    repeat_no,         \* --repeat
    idx,               \* loop index of submit_form.py main
    pc,                \* position of the running program
    form_data,         \* what fetch_form_data returned in this attempt
    all_answers,       \* generate_submission_payload: the gathered records
    parts,             \* generate_submission_payload: the payload parts
    payload,           \* the joined payload string
    submission_result, \* what submit_form returned
    escaped,           \* the exception that left submit_form, "none" if none
    fetches,           \* schema fetches: of the current attempt, before it of the runs of read_form
    submissions,       \* submission requests issued in the current attempt
    total_submissions, \* submission requests issued in the whole run
    llm_calls,         \* calls of the external text generator in this attempt
    file_writes        \* writes of the entry map file

vars == <<question, sentiment_score, answer, form, entry_file, sentiment_level,
          repeat_no, idx, pc, form_data, all_answers, parts, payload,
          submission_result, escaped, fetches, submissions, total_submissions,
          llm_calls, file_writes>>

-----------------------------------------------------------------------------
(* Bounds of the model. *)

MaxOptions == 6   \* options of a choice question, columns of a grid (harness)
MaxRows == 3      \* rows of a grid (harness)
MaxLow == 2       \* scale: low is drawn from 0..MaxLow
MaxHigh == 10     \* scale: high is drawn from 0..MaxHigh
MaxItems == 2     \* items of a form schema
MaxRepeat == 2    \* --repeat
MaxReads == 2     \* runs of read_form.py before submit_form.py

-----------------------------------------------------------------------------
(* Strings. *)

UpperSeq == <<"A","B","C","D","E","F","G","H","I","J","K","L","M",
              "N","O","P","Q","R","S","T","U","V","W","X","Y","Z">>
LowerSeq == <<"a","b","c","d","e","f","g","h","i","j","k","l","m",
              "n","o","p","q","r","s","t","u","v","w","x","y","z">>
DigitSeq == <<"0","1","2","3","4","5","6","7","8","9">>
HexSeq == <<"0","1","2","3","4","5","6","7","8","9","A","B","C","D","E","F">>

Range(s) == {s[i] : i \in DOMAIN s}

IsSpace(c) == c \in {" ", "\t", "\n"}
IsDigit(c) == c \in Range(DigitSeq)

LowerChar(c) ==
    IF \E i \in DOMAIN UpperSeq : UpperSeq[i] = c
    THEN LowerSeq[CHOOSE i \in DOMAIN UpperSeq : UpperSeq[i] = c]
    ELSE c

UpperChar(c) ==
    IF \E i \in DOMAIN LowerSeq : LowerSeq[i] = c
    THEN UpperSeq[CHOOSE i \in DOMAIN LowerSeq : LowerSeq[i] = c]
    ELSE c

\* str.lower()
Lower(s) == [i \in DOMAIN s |-> LowerChar(s[i])]

\* str.capitalize(): first character upper case, the rest lower case
Capitalize(s) == [i \in DOMAIN s |-> IF i = 1 THEN UpperChar(s[i]) ELSE LowerChar(s[i])]

RECURSIVE LStrip(_)
LStrip(s) == IF s # <<>> /\ IsSpace(Head(s)) THEN LStrip(Tail(s)) ELSE s

RECURSIVE RStrip(_)
RStrip(s) ==
    IF s # <<>> /\ IsSpace(s[Len(s)]) THEN RStrip(SubSeq(s, 1, Len(s) - 1)) ELSE s

\* str.strip()
Strip(s) == RStrip(LStrip(s))

\* the Python slice s[a:b] for 0 <= a, 0 <= b (0-based, end exclusive, clipped)
Slice(s, a, b) ==
    LET e == IF b > Len(s) THEN Len(s) ELSE b
    IN  IF a >= e THEN <<>> ELSE SubSeq(s, a + 1, e)

\* sub in s
Contains(s, sub) ==
    \E i \in 1..(Len(s) + 1) :
        /\ i + Len(sub) - 1 <= Len(s)
        /\ SubSeq(s, i, i + Len(sub) - 1) = sub

\* str.replace(c, ""): every occurrence of the character removed
RECURSIVE RemoveChar(_, _)
RemoveChar(s, c) ==
    IF s = <<>> THEN <<>>
    ELSE IF Head(s) = c THEN RemoveChar(Tail(s), c)
    ELSE <<Head(s)>> \o RemoveChar(Tail(s), c)

\* str.split(c): the pieces between the occurrences of the character
RECURSIVE SplitOn(_, _)
SplitOn(s, c) ==
    IF \A i \in DOMAIN s : s[i] # c THEN <<s>>
    ELSE LET i == CHOOSE j \in DOMAIN s : s[j] = c /\ \A k \in 1..(j - 1) : s[k] # c
         IN  <<SubSeq(s, 1, i - 1)>> \o SplitOn(SubSeq(s, i + 1, Len(s)), c)

\* str.split(): the maximal runs of non-whitespace characters
RECURSIVE SplitWords(_)
SplitWords(s) ==
    LET t == LStrip(s)
    IN  IF t = <<>> THEN <<>>
        ELSE LET n == IF \E j \in DOMAIN t : IsSpace(t[j])
                      THEN (CHOOSE j \in DOMAIN t :
                                IsSpace(t[j]) /\ \A k \in 1..(j - 1) : ~IsSpace(t[k])) - 1
                      ELSE Len(t)
             IN  <<SubSeq(t, 1, n)>> \o SplitWords(SubSeq(t, n + 1, Len(t)))

\* sep.join(list)
RECURSIVE Join(_, _)
Join(list, sep) ==
    IF list = <<>> THEN <<>>
    ELSE IF Len(list) = 1 THEN list[1]
    ELSE list[1] \o sep \o Join(Tail(list), sep)

\* str(i) for an integer
RECURSIVE StrNat(_)
StrNat(n) == IF n < 10 THEN <<DigitSeq[n + 1]>> ELSE StrNat(n \div 10) \o <<DigitSeq[(n % 10) + 1]>>

Str(i) == IF i < 0 THEN <<"-">> \o StrNat(0 - i) ELSE StrNat(i)

\* int(s) for a string of decimal digits with an optional sign; -1000 when malformed
RECURSIVE ParseNat(_)
ParseNat(s) ==
    IF Len(s) = 1 THEN (CHOOSE d \in 0..9 : DigitSeq[d + 1] = s[1])
    ELSE 10 * ParseNat(SubSeq(s, 1, Len(s) - 1)) + (CHOOSE d \in 0..9 : DigitSeq[d + 1] = s[Len(s)])

ParseInt(s) ==
    IF s # <<>> /\ \A i \in DOMAIN s : IsDigit(s[i]) THEN ParseNat(s)
    ELSE IF Len(s) > 1 /\ s[1] = "-" /\ \A i \in 2..Len(s) : IsDigit(s[i])
         THEN 0 - ParseNat(Tail(s))
    ELSE -1000

\* string.punctuation with the ASCII code of each character (the backquote,
\* which the lexer of TLA+ rejects and no string of the model contains, is
\* left out)
Punctuation ==
    << <<"!", 33>>, <<"\"", 34>>, <<"#", 35>>, <<"$", 36>>, <<"%", 37>>, <<"&", 38>>,
       <<"'", 39>>, <<"(", 40>>, <<")", 41>>, <<"*", 42>>, <<"+", 43>>, <<",", 44>>,
       <<"-", 45>>, <<".", 46>>, <<"/", 47>>, <<":", 58>>, <<";", 59>>, <<"<", 60>>,
       <<"=", 61>>, <<">", 62>>, <<"?", 63>>, <<"@", 64>>, <<"[", 91>>, <<"\\", 92>>,
       <<"]", 93>>, <<"^", 94>>, <<"_", 95>>, <<"{", 123>>, <<"|", 124>>,
       <<"}", 125>>, <<"~", 126>> >>

IsPunctuation(c) == \E i \in DOMAIN Punctuation : Punctuation[i][1] = c

AsciiCode(c) ==
    IF IsPunctuation(c)
    THEN Punctuation[CHOOSE i \in DOMAIN Punctuation : Punctuation[i][1] = c][2]
    ELSE IF c = "\t" THEN 9 ELSE IF c = "\n" THEN 10 ELSE 32

\* urllib.parse.quote_plus of one character: letters, digits and _ . - ~ are
\* kept, a space becomes +, every other character becomes %XX
QuoteChar(c) ==
    IF \/ c \in Range(UpperSeq) \cup Range(LowerSeq) \cup Range(DigitSeq)
       \/ c \in {"_", ".", "-", "~"}
    THEN <<c>>
    ELSE IF c = " " THEN <<"+">>
    ELSE <<"%", HexSeq[(AsciiCode(c) \div 16) + 1], HexSeq[(AsciiCode(c) % 16) + 1]>>

RECURSIVE quote_plus(_)
quote_plus(s) == IF s = <<>> THEN <<>> ELSE QuoteChar(Head(s)) \o quote_plus(Tail(s))

\* re.search(r"^Section\s+\d+:", k): "Section", one or more whitespace
\* characters, one or more digits, a colon, at the start of k
SectionPattern(k) ==
    \E i \in 9..Len(k) : \E j \in (i + 1)..Len(k) :
        /\ SubSeq(k, 1, 7) = <<"S","e","c","t","i","o","n">>
        /\ \A p \in 8..(i - 1) : IsSpace(k[p])
        /\ \A p \in i..(j - 1) : IsDigit(k[p])
        /\ k[j] = ":"

\* the sequences of k distinct elements of S: random.sample draws one of them
RECURSIVE Samples(_, _)
Samples(S, k) ==
    IF k = 0 THEN {<<>>}
    ELSE UNION {{<<x>> \o t : t \in Samples(S \ {x}, k - 1)} : x \in S}

\* random.shuffle(list): every reordering of the list
Shuffles(list) ==
    {[i \in DOMAIN list |-> list[p[i]]] : p \in Samples(DOMAIN list, Len(list))}

Min(a, b) == IF a < b THEN a ELSE b
Max(a, b) == IF a > b THEN a ELSE b

-----------------------------------------------------------------------------
(* config.py: the word lists the strategies consult. *)

\* options whose trimmed, lower-cased value is one of these are never chosen
SKIP_WORDS == { <<"o","t","h","e","r">> }

\* a text question whose lower-cased title contains one of these is skipped
SKIP_PHRASES == { <<"e","m","a","i","l">> }

\* a single-select question is answered by sentiment when one of these words
\* is a word of its title
IGNORE_SENTIMENT_QUESTIONS == { <<"R","a","t","e">> }

\* what the external text generator may answer
LLMResponses == { <<"R","e","d",".",","," ","b","l","u","e","!">>, <<>> }

-----------------------------------------------------------------------------
(* mind.py: the answer strategies.  A call returns or raises: kind is      *)
(* "dict" (one record, or the empty dict when answers is empty), "list"    *)
(* (the records of a grid), "None", or "raise" with the exception in exc;  *)
(* llm is the number of calls of the text generator the call made.         *)

Raise(e) == [kind |-> "raise", exc |-> e, answers |-> <<>>, llm |-> 0]
ReturnNone == [kind |-> "None", exc |-> "none", answers |-> <<>>, llm |-> 0]
ReturnDict(recs, n) == [kind |-> "dict", exc |-> "none", answers |-> recs, llm |-> n]
ReturnList(recs) == [kind |-> "list", exc |-> "none", answers |-> recs, llm |-> 0]

\* the placeholder every strategy puts in "entryId"
TO_ADD == <<"<","T","O"," ","A","D","D",">">>

AnswerRecord(question_id, question_title, answers) ==
    [entryId |-> TO_ADD, questionId |-> question_id,
     question_title |-> question_title, answers |-> answers]

\* dict.get(key, default)
Get(dict, key, default) == IF key \in DOMAIN dict THEN dict[key] ELSE default

StripAll(list) == [i \in DOMAIN list |-> Strip(list[i])]
NonEmpty(w) == w # <<>>

\* TextAnswerStrategy._process_generated_answer: every string it can return
_process_generated_answer(text) ==
    LET words == SelectSeq(StripAll(SplitOn(RemoveChar(text, "."), ",")), NonEmpty)
        Finish(result) ==
            IF result # <<>> /\ IsPunctuation(result[Len(result)])
            THEN SubSeq(result, 1, Len(result) - 1)
            ELSE result
    IN  IF words = <<>> THEN {<<>>}
        ELSE UNION { UNION { { Finish(Join([i \in 1..num_words |->
                                              IF i \in caps
                                              THEN Capitalize(shuffled[i])
                                              ELSE Lower(shuffled[i])],
                                          <<",", " ">>))
                               : caps \in SUBSET (1..num_words) }
                             : num_words \in 1..Min(4, Len(words)) }
                     : shuffled \in Shuffles(words) }

possible_countries ==
    { <<"R","o","m","a","n","i","a">>, <<"G","e","r","m","a","n","y">>,
      <<"A","u","s","t","r","i","a">> }

\* a mutant of TextAnswerStrategy_generate_answer: no branch for countries,
\* every answer comes from the text generator
TextAnswerAlwaysGenerated(q, score) ==
    IF "title" \notin DOMAIN q THEN {Raise("KeyError")}
    ELSE
    LET question_id == q.questionItem.question.questionId
        question_text == Strip(q.title)
    IN  IF \E skip_phrase \in SKIP_PHRASES : Contains(Lower(question_text), skip_phrase)
        THEN {ReturnDict(<<>>, 0)}
        ELSE { ReturnDict(<<AnswerRecord(question_id, question_text, <<g>>)>>, 1)
                 : g \in UNION {_process_generated_answer(r) : r \in LLMResponses} }

TextAnswerStrategy_generate_answer(q, score) ==
    IF "title" \notin DOMAIN q THEN {Raise("KeyError")}
    ELSE
    LET question_id == q.questionItem.question.questionId
        question_text == Strip(q.title)
    IN  IF \E skip_phrase \in SKIP_PHRASES : Contains(Lower(question_text), skip_phrase)
        THEN {ReturnDict(<<>>, 0)}
        ELSE IF Contains(Lower(question_text), <<"c","o","u","n","t","r","y">>)
        THEN { ReturnDict(<<AnswerRecord(question_id, question_text, <<c>>)>>, 0)
                 : c \in possible_countries }
        ELSE { ReturnDict(<<AnswerRecord(question_id, question_text, <<g>>)>>, 1)
                 : g \in UNION {_process_generated_answer(r) : r \in LLMResponses} }

\* mutant: the medium band starts at n // 3 instead of max(2, n // 3)
_get_choices_plain_cutoff(choice_values, score) ==
    LET num_choices == Len(choice_values)
        low_cutoff == num_choices \div 3
        medium_cutoff == (2 * num_choices) \div 3
    IN  IF num_choices = 0 THEN <<>>
        ELSE IF score < 33 THEN Slice(choice_values, 0, medium_cutoff)
        ELSE IF score < 66 THEN Slice(choice_values, low_cutoff, medium_cutoff)
        ELSE Slice(choice_values, medium_cutoff, num_choices)

_get_choices_based_on_sentiment(choice_values, score) ==
    LET num_choices == Len(choice_values)
        low_cutoff == Max(2, num_choices \div 3)
        medium_cutoff == (2 * num_choices) \div 3
        low_range == Slice(choice_values, 0, medium_cutoff)
        medium_range == Slice(choice_values, low_cutoff, medium_cutoff)
        high_range == Slice(choice_values, medium_cutoff, num_choices)
    IN  IF num_choices = 0 THEN <<>>
        ELSE IF score < 33 THEN low_range
        ELSE IF score < 66 THEN medium_range
        ELSE high_range

\* the filter of the comprehension that builds choice_values
KeepChoice(choice) ==
    "value" \in DOMAIN choice /\ Lower(Strip(choice.value)) \notin SKIP_WORDS

FilteredValues(choices) ==
    LET kept == SelectSeq(choices, KeepChoice)
    IN  [i \in DOMAIN kept |-> kept[i].value]

\* the test that sends a single-select question to the sentiment bands
SentimentRelevant(question_text) ==
    \E w \in IGNORE_SENTIMENT_QUESTIONS :
        Lower(w) \in Range(SplitWords(Lower(question_text)))

\* mutant: the upper limit is the number of options, not 60% of it
CheckboxCountsUncapped(n) == Min(2, n)..n

\* the number of answers a CHECKBOX question may get
CheckboxCounts(n) ==
    LET min_choices == Min(2, n)
        max_choices == Max(min_choices, (n * 6) \div 10)
    IN  min_choices..max_choices

ChoiceAnswerStrategy_generate_answer(q, score) ==
    IF "title" \notin DOMAIN q THEN {Raise("KeyError")}
    ELSE
    LET question_id == q.questionItem.question.questionId
        question_text == q.title
        choiceQuestion == q.questionItem.question.choiceQuestion
        choice_values == FilteredValues(choiceQuestion.options)
        question_type == Get(choiceQuestion, "type", "")
    IN  IF question_type = "CHECKBOX"
        THEN { ReturnDict(<<AnswerRecord(question_id, question_text,
                                         [i \in DOMAIN p |-> choice_values[p[i]]])>>, 0)
                 : p \in UNION { Samples(DOMAIN choice_values, num_choices)
                                   : num_choices \in CheckboxCounts(Len(choice_values)) } }
        ELSE LET band == IF SentimentRelevant(question_text)
                         THEN _get_choices_based_on_sentiment(choice_values, score)
                         ELSE choice_values
                 possible_choices == IF band # <<>> THEN band ELSE choice_values
             IN  IF possible_choices = <<>> THEN {Raise("IndexError")}
                 ELSE { ReturnDict(<<AnswerRecord(question_id, question_text, <<c>>)>>, 0)
                          : c \in Range(possible_choices) }

\* mutant: the high band starts at the low cutoff
_get_values_high_from_low_cutoff(low, high, score) ==
    LET scale_range == [i \in 1..(high - low + 1) |-> low + i - 1]
        num_values == Len(scale_range)
        low_cutoff == Max(1, num_values \div 3)
        medium_cutoff == (2 * num_values) \div 3
        possible_values == IF score < 33 THEN Slice(scale_range, 0, medium_cutoff)
                           ELSE IF score < 66
                           THEN Slice(scale_range, low_cutoff, medium_cutoff + 1)
                           ELSE Slice(scale_range, low_cutoff, num_values)
    IN  IF low > high THEN {[exc |-> "ValueError", values |-> <<>>]}
        ELSE {[exc |-> "none", values |-> v] : v \in Shuffles(possible_values)}

\* ScaleAnswerStrategy._get_values_based_on_sentiment: the lists it can
\* return (values), or the exception it raises (exc)
_get_values_based_on_sentiment(low, high, score) ==
    LET scale_range == [i \in 1..(high - low + 1) |-> low + i - 1]
        num_values == Len(scale_range)
        low_cutoff == Max(1, num_values \div 3)
        medium_cutoff == (2 * num_values) \div 3
        low_range == Slice(scale_range, 0, medium_cutoff)
        medium_range == Slice(scale_range, low_cutoff, medium_cutoff + 1)
        high_range == Slice(scale_range, medium_cutoff, num_values)
        possible_values == IF score < 33 THEN low_range
                           ELSE IF score < 66 THEN medium_range
                           ELSE high_range
    IN  IF low > high THEN {[exc |-> "ValueError", values |-> <<>>]}
        ELSE {[exc |-> "none", values |-> v] : v \in Shuffles(possible_values)}

ScaleAnswerStrategy_generate_answer(q, score) ==
    IF "title" \notin DOMAIN q THEN {Raise("KeyError")}
    ELSE
    LET question_id == q.questionItem.question.questionId
        question_text == q.title
        scale == q.questionItem.question.scaleQuestion
    IN  UNION { IF r.exc # "none" THEN {Raise(r.exc)}
                ELSE IF r.values = <<>> THEN {Raise("IndexError")}
                ELSE { ReturnDict(<<AnswerRecord(question_id, question_text, <<Str(v)>>)>>, 0)
                         : v \in Range(r.values) }
                : r \in _get_values_based_on_sentiment(scale.low, scale.high, score) }

\* mutant: the low cutoff is n // 3 instead of max(1, n // 3)
_get_matrix_choice_plain_cutoff(choice_values, score) ==
    LET num_choices == Len(choice_values)
        low_cutoff == num_choices \div 3
        medium_cutoff == (2 * num_choices) \div 3
        possible_choices ==
            IF score < 33 THEN Slice(choice_values, 0, low_cutoff)
            ELSE IF score < 66 THEN Slice(choice_values, low_cutoff, medium_cutoff)
            ELSE Slice(choice_values, medium_cutoff, num_choices)
    IN  IF possible_choices # <<>> THEN Range(possible_choices) ELSE Range(choice_values)

\* MatrixAnswerStrategy._get_matrix_choice_based_on_sentiment: the values it
\* can return for a non-empty column list
_get_matrix_choice_based_on_sentiment(choice_values, score) ==
    LET num_choices == Len(choice_values)
        low_cutoff == Max(1, num_choices \div 3)
        medium_cutoff == (2 * num_choices) \div 3
        possible_choices ==
            IF score < 33 THEN Slice(choice_values, 0, low_cutoff)
            ELSE IF score < 66 THEN Slice(choice_values, low_cutoff, medium_cutoff)
            ELSE Slice(choice_values, medium_cutoff, num_choices)
    IN  IF possible_choices # <<>> THEN Range(possible_choices) ELSE Range(choice_values)

\* the loop over the rows of a grid: every list of records it can build
RECURSIVE MatrixResponses(_, _, _)
MatrixResponses(rows, choice_values, score) ==
    IF rows = <<>> THEN {<<>>}
    ELSE { <<AnswerRecord(Head(rows).questionId, Head(rows).rowQuestion.title,
                          <<chosen_answer>>)>> \o rest
             : chosen_answer \in _get_matrix_choice_based_on_sentiment(choice_values, score),
               rest \in MatrixResponses(Tail(rows), choice_values, score) }

MatrixAnswerStrategy_generate_answer(q, score) ==
    LET grid_data == Get(q, "questionGroupItem", <<>>)
        questions == Get(grid_data, "questions", <<>>)
        columns == Get(Get(Get(grid_data, "grid", <<>>), "columns", <<>>), "options", <<>>)
    IN  IF questions = <<>> \/ columns = <<>> THEN {Raise("ValueError")}
        ELSE IF \E i \in DOMAIN columns : "value" \notin DOMAIN columns[i]
        THEN {Raise("KeyError")}
        ELSE { ReturnList(responses)
                 : responses \in MatrixResponses(questions,
                                                  [i \in DOMAIN columns |-> columns[i].value],
                                                  score) }

\* AnswerStrategyFactory.get_strategy: the strategy, or "ValueError"
get_strategy(q) ==
    LET question_data == Get(Get(q, "questionItem", <<>>), "question", <<>>)
    IN  IF "textQuestion" \in DOMAIN question_data THEN "Text"
        ELSE IF "choiceQuestion" \in DOMAIN question_data THEN "Choice"
        ELSE IF "scaleQuestion" \in DOMAIN question_data THEN "Scale"
        ELSE IF "questionGroupItem" \in DOMAIN q THEN "Matrix"
        ELSE "ValueError"

-----------------------------------------------------------------------------
(* app.py *)

\* lines 116-117 of generate_answer: the factory, then the strategy
StrategyCall(q, score) ==
    LET strategy == get_strategy(q)
    IN  IF strategy = "Text" THEN TextAnswerStrategy_generate_answer(q, score)
        ELSE IF strategy = "Choice" THEN ChoiceAnswerStrategy_generate_answer(q, score)
        ELSE IF strategy = "Scale" THEN ScaleAnswerStrategy_generate_answer(q, score)
        ELSE IF strategy = "Matrix" THEN MatrixAnswerStrategy_generate_answer(q, score)
        ELSE {Raise("ValueError")}

\* generate_answer: a ValueError of the factory or of the strategy is logged
\* and None is returned; any other exception passes through
generate_answer(q, score) ==
    { IF o.kind = "raise" /\ o.exc = "ValueError" THEN ReturnNone ELSE o
        : o \in StrategyCall(q, score) }

\* _generate_gaussian_sentiment: mean and deviation of the level, a draw, and
\* the clamp to [0, 1]; a normal draw can land anywhere, and these offsets
\* from the mean put it below 0, in each of the three bands, and above 1
GaussOffsets == {-90, -30, 0, 30, 90}

_generate_gaussian_sentiment(level) ==
    LET sentiment_map == [low |-> <<20, 10>>, medium |-> <<50, 20>>, high |-> <<80, 10>>]
        mean == Get(sentiment_map, level, <<50, 20>>)[1]
    IN  { Max(0, Min(100, mean + d)) : d \in GaussOffsets }

\* the form id given with --form-id
FormId == "F"

ENTRY_LABEL == <<"e","n","t","r","y",".","X","X","X","X">>

\* the titles one item contributes to the entry map
ItemKeys(item) ==
    (IF "title" \in DOMAIN item /\ Strip(item.title) # <<>>
     THEN {Strip(item.title)} ELSE {})
    \cup
    (IF "questionGroupItem" \in DOMAIN item
     THEN LET group_questions == Get(item.questionGroupItem, "questions", <<>>)
          IN  {Strip(group_questions[i].rowQuestion.title) : i \in DOMAIN group_questions}
     ELSE {})

\* gather_entry_data_init: the dict {title: "entry.XXXX"}, as a function
gather_entry_data_init(data) ==
    LET items == Get(data, "items", <<>>)
    IN  [t \in UNION {ItemKeys(items[i]) : i \in DOMAIN items} |-> ENTRY_LABEL]

Unmapped == "ValueError(no matching entry ID)"

\* the loop of _map_entry_with_question over the records: the first record
\* whose non-empty trimmed title is no key raises, a record whose trimmed
\* title is empty is passed over, every other record gets its entry id
RECURSIVE MapRecords(_, _)
MapRecords(form_mapping, data) ==
    IF data = <<>> THEN [exc |-> "none", data |-> <<>>]
    ELSE LET item == Head(data)
             question_title == Strip(item.question_title)
         IN  IF question_title = <<>>
             THEN LET rest == MapRecords(form_mapping, Tail(data))
                  IN  [exc |-> rest.exc, data |-> <<item>> \o rest.data]
             ELSE IF question_title \notin DOMAIN form_mapping
             THEN [exc |-> Unmapped, data |-> <<>>]
             ELSE LET rest == MapRecords(form_mapping, Tail(data))
                  IN  [exc |-> rest.exc,
                       data |-> <<[item EXCEPT !.entryId = form_mapping[question_title]]>>
                                \o rest.data]

\* the number of keys that match the section pattern
SectionCount(form_mapping) == Cardinality({k \in DOMAIN form_mapping : SectionPattern(k)})

\* _map_entry_with_question: what it raises (exc) or returns; shape is
\* "tuple" for (data, section_count) and "list" for the bare data it returns
\* when the form's mapping is empty
_map_entry_with_question(file, form_id, data) ==
    IF ~file.exists
    THEN [exc |-> "FileNotFoundError", shape |-> "none", data |-> <<>>, section_count |-> 0]
    ELSE IF form_id \notin DOMAIN file.data
    THEN [exc |-> "TypeError", shape |-> "none", data |-> <<>>, section_count |-> 0]
    ELSE LET form_mapping == file.data[form_id]
             section_count == SectionCount(form_mapping)
             mapped == MapRecords(form_mapping, data)
         IN  IF DOMAIN form_mapping = {}
             THEN [exc |-> "none", shape |-> "list", data |-> data, section_count |-> 0]
             ELSE [exc |-> mapped.exc, shape |-> "tuple", data |-> mapped.data,
                   section_count |-> section_count]

\* mutant: new records are put in front of the gathered ones
ExtendAnswersFront(all, new) == new \o all

\* all_answers.extend(row_answers), all_answers.append(answer_obj)
ExtendAnswers(all, new) == all \o new

\* step 1 of generate_submission_payload, from the records gathered so far
\* (acc): every list of records the loop can end with, or the exception that
\* ends it.  An item is a questionItem, a questionGroupItem or neither.
RECURSIVE GatherAnswers(_, _, _)
GatherAnswers(questions, score, acc) ==
    IF questions = <<>>
    THEN {[exc |-> "none", answers |-> acc.answers, llm |-> acc.llm]}
    ELSE LET q == Head(questions)
         IN  IF "questionGroupItem" \in DOMAIN q
             THEN UNION {
                    IF o.kind = "raise"
                    THEN {[exc |-> o.exc, answers |-> acc.answers, llm |-> acc.llm + o.llm]}
                    ELSE IF o.kind = "None"
                    THEN {[exc |-> "TypeError", answers |-> acc.answers, llm |-> acc.llm]}
                    ELSE GatherAnswers(Tail(questions), score,
                                       [answers |-> ExtendAnswers(acc.answers, o.answers),
                                        llm |-> acc.llm + o.llm])
                    : o \in generate_answer(q, score) }
             ELSE IF "questionItem" \in DOMAIN q
             THEN UNION {
                    IF o.kind = "raise"
                    THEN {[exc |-> o.exc, answers |-> acc.answers, llm |-> acc.llm + o.llm]}
                    ELSE GatherAnswers(Tail(questions), score,
                                       [answers |-> IF o.kind = "dict" /\ o.answers # <<>>
                                                    THEN ExtendAnswers(acc.answers, o.answers)
                                                    ELSE acc.answers,
                                        llm |-> acc.llm + o.llm])
                    : o \in generate_answer(q, score) }
             ELSE GatherAnswers(Tail(questions), score, acc)

PageHistory == <<"&","p","a","g","e","H","i","s","t","o","r","y","=">>
DefaultMarker == <<"u","s","p","=","p","p","_","u","r","l">>

\* mutant: the page indices stop at section_count - 1
PayloadActionShort(section_count) ==
    IF section_count > 0
    THEN PageHistory \o Join([i \in 1..section_count |-> Str(i - 1)], <<",">>)
    ELSE DefaultMarker

\* the first part of the payload
PayloadAction(section_count) ==
    IF section_count > 0
    THEN PageHistory \o Join([i \in 1..(section_count + 1) |-> Str(i - 1)], <<",">>)
    ELSE DefaultMarker

\* the parts "entryId=answer" of the records, record by record
RECURSIVE EntryParts(_)
EntryParts(data) ==
    IF data = <<>> THEN <<>>
    ELSE LET item == Head(data)
         IN  [i \in DOMAIN item.answers |->
                 item.entryId \o <<"=">> \o quote_plus(item.answers[i])]
             \o EntryParts(Tail(data))

\* generate_submission_payload: every outcome; exc is the exception that
\* leaves it, all_answers the records handed to _map_entry_with_question
\* (none when step 1 raised) as the call left them
generate_submission_payload(file, form_id, questions, score) ==
    { LET m == _map_entry_with_question(file, form_id, g.answers)
          Fail(e, handed) == [exc |-> e, all_answers |-> handed, parts |-> <<>>,
                              payload |-> <<>>, llm |-> g.llm]
          parts_ == <<PayloadAction(m.section_count)>> \o EntryParts(m.data)
      IN  IF g.exc # "none" THEN Fail(g.exc, <<>>)
          ELSE IF m.exc # "none" THEN Fail(m.exc, g.answers)
          ELSE IF m.shape = "list"
          THEN Fail(IF Len(m.data) = 2 THEN "TypeError" ELSE "ValueError(unpack)",
                    g.answers)
          ELSE [exc |-> "none", all_answers |-> m.data, parts |-> parts_,
                payload |-> Join(parts_, <<"&">>), llm |-> g.llm]
      : g \in GatherAnswers(questions, score, [answers |-> <<>>, llm |-> 0]) }

\* fetch_form_data: the form, or the error dict of a failed request
fetch_form_data(f) == {f, [error |-> "request failed"]}

-----------------------------------------------------------------------------
(* Questions of a form schema. *)

T_Rate == <<"R","a","t","e"," ","i","t">>
T_Rated == <<"R","a","t","e","d">>
T_Country == <<"C","o","u","n","t","r","y"," ","o","f"," ","r","e","s","i","d","e","n","c","e">>
T_Hobby == <<"H","o","b","b","y">>
T_Email == <<"Y","o","u","r"," ","E","m","a","i","l">>

TextQuestion(id, title) ==
    [title |-> title, questionItem |-> [question |-> [questionId |-> id, textQuestion |-> TRUE]]]

ChoiceQuestion(id, title, type, options) ==
    [title |-> title,
     questionItem |-> [question |-> [questionId |-> id,
                                     choiceQuestion |-> [type |-> type, options |-> options]]]]

ScaleQuestion(id, title, low, high) ==
    [title |-> title,
     questionItem |-> [question |-> [questionId |-> id,
                                     scaleQuestion |-> [low |-> low, high |-> high]]]]

\* a question kind the factory does not know
DateQuestion(id, title) ==
    [title |-> title, questionItem |-> [question |-> [questionId |-> id, dateQuestion |-> TRUE]]]

Row(id, title) == [questionId |-> id, rowQuestion |-> [title |-> title]]

GridQuestion(title, rows, options) ==
    [title |-> title,
     questionGroupItem |-> [questions |-> rows,
                            grid |-> [columns |-> [type |-> "RADIO", options |-> options]]]]

\* n options "A", "B", ... with distinct values (the Forms service rejects
\* duplicate options)
Options(n) == [i \in 1..n |-> [value |-> <<UpperSeq[i]>>]]

\* an "Other" option without a value and an option the skip words filter out
SkippedOptions ==
    << [isOther |-> TRUE], [value |-> <<" ","O","t","h","e","r">>] >>

Rows(r) == [i \in 1..r |-> Row(<<"r", i>>, <<"R","o","w"," ">> \o Str(i))]

Levels == {"low", "medium", "high"}

-----------------------------------------------------------------------------
(* One call of a strategy on one question: SpecStrategy. *)

HarnessQuestions ==
    { ChoiceQuestion("q", title, type, options)
        : title \in {T_Rate, T_Rated}, type \in {"CHECKBOX", "RADIO"},
          options \in UNION { {Options(n), SkippedOptions \o Options(n)} : n \in 0..MaxOptions } }
    \cup { ScaleQuestion("q", T_Rate, low, high) : low \in 0..MaxLow, high \in 0..MaxHigh }
    \cup { GridQuestion(T_Rate, Rows(r), Options(n)) : r \in 0..MaxRows, n \in 0..MaxOptions }
    \cup { TextQuestion("q", title) : title \in {T_Country, T_Hobby, T_Email} }
    \cup { DateQuestion("q", T_Rate) }
    \cup { [questionItem |-> [question |-> [questionId |-> "q",
                                            scaleQuestion |-> [low |-> 1, high |-> 5]]]] }

Pending == [kind |-> "pending", exc |-> "none", answers |-> <<>>, llm |-> 0]
NoResult == [success |-> FALSE, error |-> "not returned"]
NoFile == [exists |-> FALSE, data |-> <<>>]

\* the variables of the programs, while only the harness runs
ProgramsIdle ==
    /\ form = <<>>
    /\ entry_file = NoFile
    /\ repeat_no = 0
    /\ idx = 0
    /\ form_data = <<>>
    /\ all_answers = <<>>
    /\ parts = <<>>
    /\ payload = <<>>
    /\ submission_result = NoResult
    /\ escaped = "none"
    /\ fetches = 0
    /\ submissions = 0
    /\ total_submissions = 0
    /\ llm_calls = 0
    /\ file_writes = 0

programVars == <<form, entry_file, repeat_no, idx, form_data, all_answers, parts, payload,
                 submission_result, escaped, fetches, submissions, total_submissions,
                 llm_calls, file_writes>>

\* scores in [0, 1]: the ends, both sides of 0.33 and of 0.66, and 0.1, 0.5, 0.9
HarnessScores == {0, 10, 32, 33, 50, 65, 66, 90, 100}

InitStrategy ==
    /\ question \in HarnessQuestions
    /\ sentiment_score \in HarnessScores
    /\ sentiment_level = "medium"
    /\ answer = Pending
    /\ pc = "call"
    /\ ProgramsIdle

\* strategy.generate_answer(question, sentiment_score)
CallStrategy ==
    /\ pc = "call"
    /\ answer' \in StrategyCall(question, sentiment_score)
    /\ pc' = "called"
    /\ UNCHANGED <<question, sentiment_score, sentiment_level, programVars>>

NextStrategy == CallStrategy

SpecStrategy == InitStrategy /\ [][NextStrategy]_vars

-----------------------------------------------------------------------------
(* The forms and entry map files the programs run on. *)

T_Colors == <<" ","C","o","l","o","r","s"," ">>
T_Blank == <<" ">>
T_When == <<"W","h","e","n">>
T_Grid == <<"G","r","i","d">>
T_Empty == <<"E","m","p","t","y">>
T_Section1 == <<"S","e","c","t","i","o","n"," ","1",":"," ","A">>
T_Section2 == <<"S","e","c","t","i","o","n","\t"," ","2","0",":">>
T_Section3 == <<"S","e","c","t","i","o","n","3",":">>
T_Section4 == <<" ","S","e","c","t","i","o","n"," ","4",":">>
T_Section5 == <<"S","e","c","t","i","o","n"," ","5">>
T_Row1 == <<"R","o","w"," ","1"," ">>

\* the items a schema is made of: text questions answered from the country
\* list and by the text generator, a checkbox question with a padded title,
\* a drop-down question whose title is blank, a question of unknown kind, a
\* grid whose second row has a blank title, a grid without rows, and a
\* section header
PoolItems ==
    << TextQuestion("t1", T_Country),
       TextQuestion("t2", T_Hobby),
       ChoiceQuestion("c1", T_Colors, "CHECKBOX", SkippedOptions \o Options(3)),
       ChoiceQuestion("c2", T_Blank, "DROP_DOWN", Options(1)),
       DateQuestion("d1", T_When),
       GridQuestion(T_Grid, <<Row("g1", T_Row1), Row("g2", T_Blank)>>, Options(2)),
       GridQuestion(T_Empty, <<>>, Options(2)),
       [title |-> T_Section1, pageBreakItem |-> TRUE] >>

\* the items of the pool at the positions of S, in increasing order
RECURSIVE Pick(_)
Pick(S) ==
    IF S = {} THEN <<>>
    ELSE LET i == CHOOSE j \in S : \A k \in S : j <= k
         IN  <<PoolItems[i]>> \o Pick(S \ {i})

Reverse(list) == [i \in DOMAIN list |-> list[Len(list) + 1 - i]]

\* the schemas: up to MaxItems different items, in the order of the pool or
\* in the reverse order
Schemas ==
    UNION { {Pick(S), Reverse(Pick(S))}
              : S \in {T \in SUBSET DOMAIN PoolItems : Cardinality(T) <= MaxItems} }

ResponderUri == <<"h","t","t","p","s",":","/","/","f","/","v","i","e","w","f","o","r","m">>

Forms ==
    { [responderUri |-> ResponderUri, items |-> items] : items \in Schemas }
    \cup { [items |-> <<>>] }

\* every title a key of an entry map can be, in a fixed order
KeyList ==
    << Strip(T_Country), Strip(T_Hobby), Strip(T_Colors), Strip(T_When),
       Strip(T_Grid), Strip(T_Empty), Strip(T_Row1), Strip(T_Blank),
       T_Section1, T_Section2, T_Section3, T_Section4, T_Section5 >>

\* the identifier the form's owner writes into the file for a title
IdOf(t) ==
    <<"e","n","t","r","y",".">>
    \o Str(100 + (CHOOSE i \in DOMAIN KeyList : KeyList[i] = t))

\* an entry map after its "entry.XXXX" values were replaced by hand
EditedMap(m) == [t \in DOMAIN m |-> IdOf(t)]

\* an entry map written for another version of the form: two of its five
\* section-like keys match the section pattern
StaleMap ==
    [t \in {Strip(T_Country), T_Section1, T_Section2, T_Section3, T_Section4, T_Section5}
       |-> IdOf(t)]

FileOf(m) == [exists |-> TRUE, data |-> [f \in {FormId} |-> m]]
EmptyFile == [exists |-> TRUE, data |-> <<>>]

\* the files a run can find: none, one without the form id, the map of this
\* form with its identifiers filled in, the map of another version
Files(f) == {NoFile, EmptyFile, FileOf(EditedMap(gather_entry_data_init(f))), FileOf(StaleMap)}

-----------------------------------------------------------------------------
(* read_form.py and submit_form.py. *)

harnessVars == <<question, sentiment_score, answer>>

HarnessIdle ==
    /\ question = <<>>
    /\ sentiment_score = 0
    /\ answer = Pending

InitPrograms(forms, repeats) ==
    /\ HarnessIdle
    /\ form \in forms
    /\ entry_file \in Files(form)
    /\ sentiment_level \in Levels
    /\ repeat_no \in repeats
    /\ idx = 0
    /\ pc = "idle"
    /\ form_data = <<>>
    /\ all_answers = <<>>
    /\ parts = <<>>
    /\ payload = <<>>
    /\ submission_result = NoResult
    /\ escaped = "none"
    /\ fetches = 0
    /\ submissions = 0
    /\ total_submissions = 0
    /\ llm_calls = 0
    /\ file_writes = 0

Init == InitPrograms(Forms, {1})

attemptVars == <<form_data, all_answers, parts, payload, submission_result, escaped,
                 fetches, submissions, llm_calls>>

\* a mutant of NeedsEntry: the entry is rebuilt on every run
NeedsEntryAlways(entry_data, form_id) == TRUE

\* read_form.py main, line 45: the form has no entry in the file yet
NeedsEntry(entry_data, form_id) == form_id \notin DOMAIN entry_data

\* read_form.py main: fetch the form, and write the entry map of the form
\* if the file has no entry for the form id; fetches counts the runs
ReadForm ==
    /\ pc = "idle"
    /\ fetches < MaxReads
    /\ fetches' = fetches + 1
    /\ \E fetched \in fetch_form_data(form) :
        LET entry_data == IF entry_file.exists THEN entry_file.data ELSE <<>>
        IN  IF NeedsEntry(entry_data, FormId)
            THEN /\ entry_file' = FileOf(gather_entry_data_init(fetched))
                 /\ file_writes' = file_writes + 1
            ELSE UNCHANGED <<entry_file, file_writes>>
    /\ UNCHANGED <<harnessVars, form, sentiment_level, repeat_no, idx, pc, form_data,
                   all_answers, parts, payload, submission_result, escaped, submissions,
                   llm_calls, total_submissions>>

\* submit_form.py main up to its loop
StartMain ==
    /\ pc = "idle"
    /\ pc' = "main"
    /\ UNCHANGED <<harnessVars, form, entry_file, sentiment_level, repeat_no, idx,
                   attemptVars, total_submissions, file_writes>>

\* the loop of main enters submit_form
StartAttempt ==
    /\ pc = "main"
    /\ idx < repeat_no
    /\ pc' = "fetch"
    /\ form_data' = <<>>
    /\ all_answers' = <<>>
    /\ parts' = <<>>
    /\ payload' = <<>>
    /\ submission_result' = NoResult
    /\ fetches' = 0
    /\ submissions' = 0
    /\ llm_calls' = 0
    /\ UNCHANGED <<harnessVars, form, entry_file, sentiment_level, repeat_no, idx, escaped,
                   total_submissions, file_writes>>

\* submit_form, line 218: the schema fetch
FetchForm ==
    /\ pc = "fetch"
    /\ form_data' \in fetch_form_data(form)
    /\ fetches' = fetches + 1
    /\ pc' = "fetched"
    /\ UNCHANGED <<harnessVars, form, entry_file, sentiment_level, repeat_no, idx,
                   all_answers, parts, payload, submission_result, escaped, submissions,
                   total_submissions, llm_calls, file_writes>>

\* submit_form, lines 220-223: no responderUri, the failure result is returned
NoResponderUri ==
    /\ pc = "fetched"
    /\ Get(form_data, "responderUri", <<>>) = <<>>
    /\ submission_result' = [success |-> FALSE, error |-> "No responderUri"]
    /\ idx' = idx + 1
    /\ pc' = "main"
    /\ UNCHANGED <<harnessVars, form, entry_file, sentiment_level, repeat_no, form_data,
                   all_answers, parts, payload, escaped, fetches, submissions,
                   total_submissions, llm_calls, file_writes>>

\* submit_form, lines 226-244: the score is drawn and the payload is built,
\* or an exception leaves generate_submission_payload; neither submit_form
\* nor main catches it
BuildPayload ==
    /\ pc = "fetched"
    /\ Get(form_data, "responderUri", <<>>) # <<>>
    /\ \E score \in _generate_gaussian_sentiment(sentiment_level) :
       \E o \in generate_submission_payload(entry_file, FormId,
                                            Get(form_data, "items", <<>>), score) :
        /\ llm_calls' = llm_calls + o.llm
        /\ IF o.exc = "none"
           THEN /\ all_answers' = o.all_answers
                /\ parts' = o.parts
                /\ payload' = o.payload
                /\ pc' = "send"
                /\ UNCHANGED escaped
           ELSE /\ all_answers' = o.all_answers
                /\ escaped' = o.exc
                /\ pc' = "crashed"
                /\ UNCHANGED <<parts, payload>>
    /\ UNCHANGED <<harnessVars, form, entry_file, sentiment_level, repeat_no, idx, form_data,
                   submission_result, fetches, submissions, total_submissions, file_writes>>

\* a mutant of SendRequest: a failed request is issued again
SendRequestRetried ==
    /\ pc = "send"
    /\ submissions' = submissions + 1
    /\ total_submissions' = total_submissions + 1
    /\ \/ /\ submission_result' = [success |-> TRUE, status_code |-> 200]
          /\ idx' = idx + 1
          /\ pc' = "main"
       \/ /\ submission_result' = [success |-> FALSE, error |-> "request error"]
          /\ submissions < 2
          /\ UNCHANGED <<idx, pc>>
       \/ /\ submission_result' = [success |-> FALSE, error |-> "request error"]
          /\ idx' = idx + 1
          /\ pc' = "main"
    /\ UNCHANGED <<harnessVars, form, entry_file, sentiment_level, repeat_no, form_data,
                   all_answers, parts, payload, escaped, fetches, llm_calls, file_writes>>

\* submit_form, lines 247-258: the submission request and the result
SendRequest ==
    /\ pc = "send"
    /\ submissions' = submissions + 1
    /\ total_submissions' = total_submissions + 1
    /\ submission_result' \in { [success |-> TRUE, status_code |-> 200],
                                [success |-> FALSE, error |-> "request error"] }
    /\ idx' = idx + 1
    /\ pc' = "main"
    /\ UNCHANGED <<harnessVars, form, entry_file, sentiment_level, repeat_no, form_data,
                   all_answers, parts, payload, escaped, fetches, llm_calls, file_writes>>

\* the loop of main is over
MainExit ==
    /\ pc = "main"
    /\ idx >= repeat_no
    /\ pc' = "done"
    /\ UNCHANGED <<harnessVars, form, entry_file, sentiment_level, repeat_no, idx,
                   attemptVars, total_submissions, file_writes>>

Next ==
    \/ ReadForm
    \/ StartMain
    \/ StartAttempt
    \/ FetchForm
    \/ NoResponderUri
    \/ BuildPayload
    \/ SendRequest
    \/ MainExit

Spec == Init /\ [][Next]_vars

\* batch mode: --repeat up to MaxRepeat on forms of at most one item
InitBatch ==
    InitPrograms({f \in Forms : Len(f.items) <= 1}, 1..MaxRepeat)

SpecBatch == InitBatch /\ [][Next]_vars

\* main's for loop goes on to its next iteration: when submit_form has
\* returned and iterations remain, the next call of submit_form is made
SpecBatchFair == SpecBatch /\ WF_vars(StartAttempt)

-----------------------------------------------------------------------------
(* Properties of the strategies, checked under SpecStrategy. *)

Called == pc = "called"

\* the elements of list at the 0-based positions a, ..., b - 1
Band(list, a, b) == {list[i] : i \in {j \in DOMAIN list : a < j /\ j <= b}}

BandOrAll(list, a, b) == IF Band(list, a, b) = {} THEN Range(list) ELSE Band(list, a, b)

\* the call returned exactly one record
OneRecord == answer.kind = "dict" /\ Len(answer.answers) = 1

\* the call returned one record with one value
OneValue == OneRecord /\ Len(answer.answers[1].answers) = 1

TheValue == answer.answers[1].answers[1]

IsCheckbox ==
    /\ get_strategy(question) = "Choice"
    /\ question.questionItem.question.choiceQuestion.type = "CHECKBOX"

IsFlaggedRadio ==
    /\ get_strategy(question) = "Choice"
    /\ question.questionItem.question.choiceQuestion.type = "RADIO"
    /\ SentimentRelevant(question.title)

QuestionValues == FilteredValues(question.questionItem.question.choiceQuestion.options)

\* C1: a CHECKBOX question with n filtered options gets k answers with
\* min(2,n) <= k <= max(min(2,n), floor(0.6 n)), pairwise distinct and all
\* members of the filtered option list.
C1_CheckboxSelection ==
    (Called /\ IsCheckbox) =>
        /\ OneRecord
        /\ LET n == Len(QuestionValues)
               a == answer.answers[1].answers
               k == Len(a)
           IN  /\ Min(2, n) <= k
               /\ k <= Max(Min(2, n), (3 * n) \div 5)
               /\ \A i \in 1..k : \A j \in 1..k : i # j => a[i] # a[j]
               /\ \A i \in 1..k : a[i] \in Range(QuestionValues)

\* C1 witness: five options remain after the filter and three were chosen
C1_Witness ==
    /\ Called /\ IsCheckbox
    /\ Len(question.questionItem.question.choiceQuestion.options) = 7
    /\ Len(QuestionValues) = 5
    /\ OneRecord /\ Len(answer.answers[1].answers) = 3

\* C8 as stated: a flagged single-select question with n >= 1 options is
\* answered from options[0 : 2n//3], options[n//3 : 2n//3] or options[2n//3 : n]
\* by the score, and from the full list only when that band is empty.
C8_Original ==
    (Called /\ IsFlaggedRadio /\ Len(QuestionValues) >= 1) =>
        /\ OneValue
        /\ LET n == Len(QuestionValues)
           IN  TheValue \in
                   IF sentiment_score < 33 THEN BandOrAll(QuestionValues, 0, (2 * n) \div 3)
                   ELSE IF sentiment_score < 66
                   THEN BandOrAll(QuestionValues, n \div 3, (2 * n) \div 3)
                   ELSE BandOrAll(QuestionValues, (2 * n) \div 3, n)

\* C8 amended: the medium band is options[max(2, n//3) : 2n//3]; the low band
\* options[0 : 2n//3] and the high band options[2n//3 : n] are as stated, and
\* the full list is used only when the band is empty.
C8_SentimentBands ==
    (Called /\ IsFlaggedRadio /\ Len(QuestionValues) >= 1) =>
        /\ OneValue
        /\ LET n == Len(QuestionValues)
           IN  TheValue \in
                   IF sentiment_score < 33 THEN BandOrAll(QuestionValues, 0, (2 * n) \div 3)
                   ELSE IF sentiment_score < 66
                   THEN BandOrAll(QuestionValues, Max(2, n \div 3), (2 * n) \div 3)
                   ELSE BandOrAll(QuestionValues, (2 * n) \div 3, n)

\* C8 witness: five options, a medium score, and the one option of the
\* medium band chosen
C8_Witness ==
    /\ Called /\ IsFlaggedRadio
    /\ Len(QuestionValues) = 5
    /\ sentiment_score = 50
    /\ OneValue /\ TheValue = <<"C">>

IsGrid == get_strategy(question) = "Matrix"

GridRows == question.questionGroupItem.questions
GridColumns ==
    [i \in DOMAIN question.questionGroupItem.grid.columns.options |->
        question.questionGroupItem.grid.columns.options[i].value]

\* one record per row, in the order of the rows, with the row's identifier
\* and title and one value taken from allowed
RowsAnswered(allowed) ==
    /\ answer.kind = "list"
    /\ Len(answer.answers) = Len(GridRows)
    /\ \A i \in DOMAIN GridRows :
        /\ answer.answers[i].questionId = GridRows[i].questionId
        /\ answer.answers[i].question_title = GridRows[i].rowQuestion.title
        /\ Len(answer.answers[i].answers) = 1
        /\ answer.answers[i].answers[1] \in allowed

\* C9 as stated: every row of a grid with n >= 1 columns is answered from
\* columns[0 : n//3], columns[n//3 : 2n//3] or columns[2n//3 : n] by the score,
\* and from the whole column list only when that band is empty.
C9_Original ==
    (Called /\ IsGrid /\ Len(GridRows) >= 1 /\ Len(GridColumns) >= 1) =>
        LET n == Len(GridColumns)
        IN  RowsAnswered(IF sentiment_score < 33 THEN BandOrAll(GridColumns, 0, n \div 3)
                         ELSE IF sentiment_score < 66
                         THEN BandOrAll(GridColumns, n \div 3, (2 * n) \div 3)
                         ELSE BandOrAll(GridColumns, (2 * n) \div 3, n))

\* C9 amended: the lower cutoff is max(1, n//3): the bands are
\* columns[0 : max(1, n//3)], columns[max(1, n//3) : 2n//3], columns[2n//3 : n],
\* the whole column list is used only when the band is empty, and for
\* columns [A,B,C] and score 0.1 every row's value is "A".
C9_MatrixBands ==
    (Called /\ IsGrid /\ Len(GridRows) >= 1 /\ Len(GridColumns) >= 1) =>
        LET n == Len(GridColumns)
            c == Max(1, n \div 3)
        IN  /\ RowsAnswered(IF sentiment_score < 33 THEN BandOrAll(GridColumns, 0, c)
                            ELSE IF sentiment_score < 66
                            THEN BandOrAll(GridColumns, c, (2 * n) \div 3)
                            ELSE BandOrAll(GridColumns, (2 * n) \div 3, n))
            /\ (GridColumns = <<<<"A">>, <<"B">>, <<"C">>>> /\ sentiment_score = 10) =>
                   \A i \in DOMAIN answer.answers : answer.answers[i].answers = << <<"A">> >>

\* C9 witness: three rows, columns [A,B,C], score 0.1, answered
C9_Witness ==
    /\ Called /\ IsGrid
    /\ Len(GridRows) = 3
    /\ GridColumns = <<<<"A">>, <<"B">>, <<"C">>>>
    /\ sentiment_score = 10
    /\ answer.kind = "list" /\ Len(answer.answers) = 3

IsScale == get_strategy(question) = "Scale"
ScaleLow == question.questionItem.question.scaleQuestion.low
ScaleHigh == question.questionItem.question.scaleQuestion.high

\* C10: a Scale question (a titled item) with low <= high and a score >= 0.66
\* is answered by the string of an integer of the upper band (the elements
\* of low..high from index 2n//3 on, n = high-low+1), hence of [low, high];
\* for low=1, high=5, score=0.9 the value is "4" or "5".
C10_ScaleUpperBand ==
    (/\ Called /\ IsScale /\ "title" \in DOMAIN question
     /\ ScaleLow <= ScaleHigh /\ sentiment_score >= 66) =>
        /\ OneValue
        /\ LET n == ScaleHigh - ScaleLow + 1
               v == ParseInt(TheValue)
           IN  /\ Str(v) = TheValue
               /\ v \in {ScaleLow + i : i \in ((2 * n) \div 3)..(n - 1)}
               /\ ScaleLow <= v /\ v <= ScaleHigh
        /\ (ScaleLow = 1 /\ ScaleHigh = 5 /\ sentiment_score = 90) =>
               TheValue \in {<<"4">>, <<"5">>}

\* C10 witness: low=1, high=5, score 0.9, answered "5"
C10_Witness ==
    /\ Called /\ IsScale /\ "title" \in DOMAIN question
    /\ ScaleLow = 1 /\ ScaleHigh = 5
    /\ sentiment_score = 90
    /\ OneValue /\ TheValue = <<"5">>

\* C14 as stated: for every Scale question with low <= high (low = high and
\* two-value ranges included) and every score the selected band is not
\* empty and the call returns one record with one value, the string of an
\* integer of [low, high]; the call fails only when low > high.
C14_Original ==
    (Called /\ IsScale /\ "title" \in DOMAIN question) =>
        IF ScaleLow <= ScaleHigh
        THEN /\ answer.kind # "raise"
             /\ OneValue
             /\ Str(ParseInt(TheValue)) = TheValue
             /\ ScaleLow <= ParseInt(TheValue) /\ ParseInt(TheValue) <= ScaleHigh
        ELSE answer.kind = "raise" /\ answer.exc = "ValueError"

-----------------------------------------------------------------------------
(* Properties of a submission attempt, checked under Spec. *)

HasMapping == entry_file.exists /\ FormId \in DOMAIN entry_file.data
LoadedMap == entry_file.data[FormId]

\* the attempt got as far as the resolver's loop over the records
ResolverRan ==
    /\ pc \in {"send", "crashed"}
    /\ HasMapping /\ DOMAIN LoadedMap # {}
    /\ escaped \in {"none", Unmapped}

\* generate_submission_payload returned a payload
PayloadBuilt == pc = "send"

TitleOf(rec) == Strip(rec.question_title)

\* C2 as stated: when the resolver meets a record whose trimmed title is not
\* a key of the loaded map it fails with the unmapped-question error, no
\* payload is returned and no submission request is issued.
C2_Original ==
    (ResolverRan /\ \E i \in DOMAIN all_answers : TitleOf(all_answers[i]) \notin DOMAIN LoadedMap)
        => (escaped = Unmapped /\ pc = "crashed" /\ payload = <<>> /\ submissions = 0)

\* the attempt is over: submit_form returned or an exception left it
AttemptOver == pc = "crashed" \/ (pc \in {"main", "done"} /\ idx > 0)

\* C3 as stated: every outcome of an attempt is a result dict, with success
\* false and an error detail for a failure, and no exception leaves
\* submit_form.
C3_Original ==
    AttemptOver =>
        /\ escaped = "none"
        /\ "success" \in DOMAIN submission_result
        /\ (submission_result.success \/ "error" \in DOMAIN submission_result)

Items == Get(form_data, "items", <<>>)

\* the failures of answer generation the caller logs: an unknown question
\* kind, a scale with low > high, a grid without rows or without columns
GenerationFails(q) ==
    \/ "questionItem" \in DOMAIN q /\ get_strategy(q) = "ValueError"
    \/ /\ get_strategy(q) = "Scale"
       /\ q.questionItem.question.scaleQuestion.low > q.questionItem.question.scaleQuestion.high
    \/ /\ get_strategy(q) = "Matrix"
       /\ \/ Get(q.questionGroupItem, "questions", <<>>) = <<>>
          \/ Get(Get(Get(q.questionGroupItem, "grid", <<>>), "columns", <<>>),
                 "options", <<>>) = <<>>

\* the identifiers of the leaf questions of an item, rows in their order
LeafIds(q) ==
    IF "questionGroupItem" \in DOMAIN q
    THEN LET rows == Get(q.questionGroupItem, "questions", <<>>)
         IN  [i \in DOMAIN rows |-> rows[i].questionId]
    ELSE IF "questionItem" \in DOMAIN q THEN <<q.questionItem.question.questionId>>
    ELSE <<>>

RECURSIVE SchemaLeafIds(_)
SchemaLeafIds(items) ==
    IF items = <<>> THEN <<>> ELSE LeafIds(Head(items)) \o SchemaLeafIds(Tail(items))

RECURSIVE AnswerableLeafIds(_)
AnswerableLeafIds(items) ==
    IF items = <<>> THEN <<>>
    ELSE (IF GenerationFails(Head(items)) THEN <<>> ELSE LeafIds(Head(items)))
         \o AnswerableLeafIds(Tail(items))

RecordIds == [i \in DOMAIN all_answers |-> all_answers[i].questionId]

\* the loaded map has the keys gather_entry_data_init produces for the schema
MapOfThisSchema ==
    /\ HasMapping
    /\ DOMAIN LoadedMap = DOMAIN gather_entry_data_init(form_data)
    /\ DOMAIN LoadedMap # {}

\* C4 as stated: a question whose answer generation fails is left out and the
\* payload is built from the answers of all other questions, for standard
\* and for grouped questions.
C4_Original ==
    (/\ pc \in {"send", "crashed"}
     /\ MapOfThisSchema
     /\ \E i \in DOMAIN Items : GenerationFails(Items[i]))
        => (PayloadBuilt /\ escaped = "none" /\ RecordIds = AnswerableLeafIds(Items))

\* the number of values of the first r records
RECURSIVE ValuesBefore(_, _)
ValuesBefore(recs, r) ==
    IF r = 0 THEN 0 ELSE ValuesBefore(recs, r - 1) + Len(recs[r].answers)

PositionIn(list, x) == CHOOSE i \in DOMAIN list : list[i] = x

\* C5: the entry pairs of the payload are the values of the answer records,
\* record by record in the order of the schema's questions and rows, the
\* values of one record consecutive, under the record's identifier and in
\* the order generated; there are as many pairs as values.
C5_PayloadOrder ==
    PayloadBuilt =>
        LET recs == all_answers
            leaves == SchemaLeafIds(Items)
            pieces == SplitOn(payload, "&")
        IN  /\ Len(parts) = 1 + ValuesBefore(recs, Len(recs))
            /\ \A r \in DOMAIN recs : \A v \in DOMAIN recs[r].answers :
                   parts[1 + ValuesBefore(recs, r - 1) + v]
                       = recs[r].entryId \o <<"=">> \o quote_plus(recs[r].answers[v])
            /\ \A r \in DOMAIN recs : recs[r].questionId \in Range(leaves)
            /\ \A r \in DOMAIN recs : \A t \in DOMAIN recs :
                   r < t => PositionIn(leaves, recs[r].questionId)
                                < PositionIn(leaves, recs[t].questionId)
            /\ Len(pieces) >= Len(parts) - 1
            /\ \A i \in 2..Len(parts) : pieces[Len(pieces) - Len(parts) + i] = parts[i]

\* C5 witness: a payload from a checkbox record with two values followed by
\* the two row records of a grid
C5_Witness ==
    /\ PayloadBuilt
    /\ Len(all_answers) = 3
    /\ Len(all_answers[1].answers) = 2
    /\ RecordIds = <<"c1", "g1", "g2">>
    /\ Len(parts) = 5

C7_Original ==
    (ResolverRan /\ MapOfThisSchema) =>
        /\ escaped # Unmapped
        /\ \A i \in DOMAIN all_answers :
               TitleOf(all_answers[i]) \in DOMAIN LoadedMap
                   => all_answers[i].entryId = LoadedMap[TitleOf(all_answers[i])]

\* the schema is one Text question whose title mentions a country and
\* matches no skip phrase
OneCountryQuestion ==
    /\ Len(Items) = 1
    /\ "questionItem" \in DOMAIN Items[1]
    /\ "textQuestion" \in DOMAIN Items[1].questionItem.question
    /\ "title" \in DOMAIN Items[1]
    /\ Contains(Lower(Items[1].title), <<"c","o","u","n","t","r","y">>)
    /\ \A phrase \in SKIP_PHRASES : ~Contains(Lower(Items[1].title), phrase)

\* C13: for a schema of one Text question about a country, with an entry map
\* built from that schema, the attempt builds a payload without a call of
\* the text generator; the one answer is "Romania", "Germany" or "Austria"
\* and the payload has exactly one identifier=value pair, the map's
\* identifier of the title and the answer, which its encoding leaves as it is.
C13_CountryAnswer ==
    (pc \in {"send", "crashed"} /\ OneCountryQuestion /\ MapOfThisSchema) =>
        /\ PayloadBuilt /\ escaped = "none"
        /\ llm_calls = 0
        /\ Len(all_answers) = 1
        /\ Len(all_answers[1].answers) = 1
        /\ all_answers[1].answers[1]
             \in { <<"R","o","m","a","n","i","a">>, <<"G","e","r","m","a","n","y">>,
                   <<"A","u","s","t","r","i","a">> }
        /\ Len(parts) = 2
        /\ parts[2] = LoadedMap[Strip(Items[1].title)] \o <<"=">> \o all_answers[1].answers[1]
        /\ payload = parts[1] \o <<"&">> \o parts[2]
        /\ Len(SplitOn(payload, "=")) = 3

\* C13 witness: "Country of residence" answered "Germany" under the
\* identifier read_form wrote
C13_Witness ==
    /\ PayloadBuilt /\ OneCountryQuestion /\ MapOfThisSchema
    /\ file_writes = 1
    /\ all_answers[1].answers = << <<"G","e","r","m","a","n","y">> >>
    /\ parts[2] = ENTRY_LABEL \o <<"=">> \o <<"G","e","r","m","a","n","y">>

\* C15 as stated: whenever generate_submission_payload returns a payload,
\* the identifier of every pair in it is the entry map's value for the
\* record's title, and the placeholder "<TO ADD>" is the identifier of none,
\* for any schema (blank titles included) and any entry map.
C15_Original ==
    PayloadBuilt =>
        /\ \A i \in DOMAIN all_answers :
               /\ TitleOf(all_answers[i]) \in DOMAIN LoadedMap
               /\ all_answers[i].entryId = LoadedMap[TitleOf(all_answers[i])]
        /\ \A i \in 2..Len(parts) :
               /\ Head(SplitOn(parts[i], "=")) \in {LoadedMap[t] : t \in DOMAIN LoadedMap}
               /\ Head(SplitOn(parts[i], "=")) # TO_ADD

-----------------------------------------------------------------------------
(* Properties of a batch of attempts, checked under SpecBatch. *)

\* C11: the entry map of a form is built once and then only read: the file
\* changes only in a run of read_form that finds no entry for the form id,
\* which adds one; a run that finds the entry and every step of every
\* submission attempt leave the file as it is and write nothing.
C11_EntryMapBuiltOnce ==
    [][ /\ (entry_file' # entry_file \/ file_writes' # file_writes)
            => /\ pc = "idle" /\ pc' = "idle"
               /\ ~HasMapping
               /\ file_writes' = file_writes + 1
               /\ entry_file'.exists /\ FormId \in DOMAIN entry_file'.data
        /\ HasMapping => (entry_file'.exists /\ FormId \in DOMAIN entry_file'.data
                          /\ entry_file'.data[FormId] = LoadedMap)
        /\ pc # "idle" => UNCHANGED <<entry_file, file_writes>> ]_vars

\* C11 witness: read_form built the entry, a second run of read_form found
\* it, and two attempts followed
C11_Witness ==
    /\ pc = "done" /\ idx = 2
    /\ file_writes = 1
    /\ HasMapping

\* submit_form is running
InAttempt == pc \in {"fetch", "fetched", "send", "crashed"}

\* the last attempt returned a failure result and attempts remain
FailureReturned ==
    /\ pc = "main" /\ idx > 0 /\ idx < repeat_no
    /\ ~submission_result.success

\* C12: with --repeat N the attempts run one after another and nothing is
\* retried: an attempt starts only from main's loop, after the one before
\* returned; an attempt issues at most one schema fetch and at most one
\* submission request, the request only after a fetch that gave a
\* responderUri; a returned failure is followed by the next attempt; the run
\* issues at most N submission requests.
C12_SequentialNoRetry ==
    /\ []((InAttempt \/ idx > 0) =>
            /\ fetches <= 1 /\ submissions <= 1
            /\ submissions = 1 =>
                 (fetches = 1 /\ Get(form_data, "responderUri", <<>>) # <<>>))
    /\ [](total_submissions <= idx /\ idx <= repeat_no)
    /\ [][ /\ (pc' = "fetch" /\ pc # "fetch")
               => (pc = "main" /\ (idx = 0 \/ submission_result # NoResult))
           /\ idx' # idx
               => (idx' = idx + 1 /\ pc' = "main" /\ submission_result' # NoResult)
           /\ total_submissions' # total_submissions
               => (pc = "send" /\ total_submissions' = total_submissions + 1
                   /\ idx' = idx + 1) ]_vars
    /\ (FailureReturned ~> pc = "fetch")

\* C12 witness: the first of two attempts returned a failure without a
\* request, the second sent its request and succeeded
C12_Witness ==
    /\ pc = "done" /\ idx = 2 /\ repeat_no = 2
    /\ total_submissions = 1
    /\ submissions = 1 /\ submission_result.success

====
